---- MODULE Spec2Model ----
(***************************************************************************)
(* Model of the batched device-name pipeline of                            *)
(* src/migrate_client_credentials.mjs (lines 438-597): main,               *)
(* processCsvFile, processRow, updateItemWithOs and their helpers, run on  *)
(* the Node.js event loop against a DynamoDB table.                        *)
(*                                                                         *)
(* Strings the code inspects character by character (sourceApp, osValue,   *)
(* name, os) are sequences of one-character strings; suid and zid, which   *)
(* the code only tests for emptiness and concatenates, are TLA+ strings.   *)
(***************************************************************************)
EXTENDS FiniteSets, Integers, Sequences, TLC

VARIABLES
    pc,                  \* position of main/processCsvFile
    fileExists,          \* fs.existsSync(csvFilePath)
    rows,                \* the rows the csv stream yields, in file order
    CONCURRENCY_LIMIT,   \* the window size W
    unhandledRejections, \* what the runtime does with an unhandled rejection
    table,               \* the DynamoDB table: key -> item
    processedDevices,    \* the module-level dedup Set
    processedCount,      \* processCsvFile's local counter
    updatedCount,        \* processCsvFile's local counter
    batch,               \* the accumulator of processRow promises (row indices)
    task,                \* per row: the state of its processRow promise
    errorLog,            \* the messages written through logger.error
    summary,             \* the summary main prints (empty until printed)
    exitCode,            \* the code handed to process.exit (-1 while running)
    storeOps,            \* the store calls process_device_names.js has issued, in order
    fnArgs,              \* the arguments of a helper called on its own
    fnResult             \* the results of the calls of that helper, in order

vars == << pc, fnArgs, fnResult, storeOps, fileExists, rows, CONCURRENCY_LIMIT, unhandledRejections, table,
           processedDevices, processedCount, updatedCount, batch, task,
           errorLog, summary, exitCode >>

----------------------------------------------------------------------------
(* Bounds of the model *)

MaxRows == 3
MaxW == 2
MaxParts == 3      \* fragments a sourceApp handed to getOsFromSourceApp is made of
MaxCalls == 2      \* successive calls of updateItemWithOs with the same arguments

----------------------------------------------------------------------------
(* Character strings *)

UpperCase == << "A","B","C","D","E","F","G","H","I","J","K","L","M",
                "N","O","P","Q","R","S","T","U","V","W","X","Y","Z" >>
LowerCase == << "a","b","c","d","e","f","g","h","i","j","k","l","m",
                "n","o","p","q","r","s","t","u","v","w","x","y","z" >>

\* String.prototype.toLowerCase, one character
LowerChar(c) ==
    IF \E i \in 1..Len(UpperCase) : UpperCase[i] = c
    THEN LowerCase[CHOOSE i \in 1..Len(UpperCase) : UpperCase[i] = c]
    ELSE c

\* String.prototype.toLowerCase
toLowerCase(s) == [i \in 1..Len(s) |-> LowerChar(s[i])]

\* String.prototype.includes
includes(s, sub) ==
    \E i \in 0..(Len(s) - Len(sub)) : SubSeq(s, i + 1, i + Len(sub)) = sub

StrMac == << "M","a","c" >>
StrWindows == << "W","i","n","d","o","w","s" >>
StrDesktopAgent == << "D","e","s","k","t","o","p"," ","A","g","e","n","t" >>
Null == << >>

----------------------------------------------------------------------------
(* The helpers of the script *)

\* The classifier with the two tests in the other order
getOsFromSourceApp_WindowsFirst(sourceApp) ==
    LET lower == toLowerCase(sourceApp)
    IN  IF includes(lower, toLowerCase(StrWindows)) THEN StrWindows
        ELSE IF includes(lower, toLowerCase(StrMac)) THEN StrMac
        ELSE Null

\* getOsFromSourceApp, the same in both scripts
getOsFromSourceApp(sourceApp) ==
    LET lower == toLowerCase(sourceApp)
    IN  IF includes(lower, toLowerCase(StrMac)) THEN StrMac
        ELSE IF includes(lower, toLowerCase(StrWindows)) THEN StrWindows
        ELSE Null

\* The validator without the test of zid
isValidRow_ZidNotTested(row) ==
    /\ row.suid # ""
    /\ row.sourceApp # << >>

isValidRow(row) ==
    /\ row.suid # ""
    /\ row.zid # ""
    /\ row.sourceApp # << >>

\* A dedup gate that lets every row through
shouldUpdateItem_AlwaysTrue(zid, processed) == TRUE

shouldUpdateItem(zid, processed) == zid \notin processed

\* Key: { pk: suid, sk: `device#${zid}` }
ItemKey(suid, zid) == [pk |-> suid, sk |-> "device#" \o zid]

\* DynamoDB UpdateItem with "SET #name = :name, #os = :os" and no
\* ConditionExpression: the attributes are set on the item under the key,
\* and an item holding the key and the set attributes is created when the
\* table has none.
DynamoUpdate(tbl, key, name, os) ==
    LET old == IF key \in DOMAIN tbl THEN tbl[key] ELSE key
        new == [a \in (DOMAIN old) \cup {"name", "os"} |->
                   IF a = "name" THEN name
                   ELSE IF a = "os" THEN os
                   ELSE old[a]]
    IN  [k \in (DOMAIN tbl) \cup {key} |-> IF k = key THEN new ELSE tbl[k]]

newName(osValue) == StrDesktopAgent \o << " ", "(" >> \o osValue \o << ")" >>

\* updateItemWithOs with the name left without the OS
updateItemWithOs_NameWithoutOs(tbl, suid, zid, osValue) ==
    DynamoUpdate(tbl, ItemKey(suid, zid), StrDesktopAgent, toLowerCase(osValue))

\* updateItemWithOs once the store has answered the update successfully
updateItemWithOs(tbl, suid, zid, osValue) ==
    DynamoUpdate(tbl, ItemKey(suid, zid), newName(osValue), toLowerCase(osValue))

\* updateItemWithOs of process_device_names.js: ":os" is osValue as given
seqUpdateItemWithOs(tbl, suid, zid, osValue) ==
    DynamoUpdate(tbl, ItemKey(suid, zid), newName(osValue), osValue)

\* processRow with the classification moved before the dedup gate
processRow_ClassifyFirst(row, processed) ==
    IF getOsFromSourceApp(row.sourceApp) = Null THEN "SkippedNoOsMatch"
    ELSE IF ~shouldUpdateItem(row.zid, processed) THEN "SkippedAlreadyProcessed"
    ELSE "InFlight"

\* The synchronous part of processRow, up to its first await: the state the
\* returned promise is in when processCsvFile pushes it.
processRow(row, processed) ==
    IF ~shouldUpdateItem(row.zid, processed) THEN "SkippedAlreadyProcessed"
    ELSE IF getOsFromSourceApp(row.sourceApp) = Null THEN "SkippedNoOsMatch"
    ELSE "InFlight"

\* The window test written with > instead of >=
BatchFull_OffByOne(b, limit) == Len(b) > limit

\* batch.length >= CONCURRENCY_LIMIT
BatchFull(b, limit) == Len(b) >= limit

Settled(st) == st \in {"SkippedAlreadyProcessed", "SkippedNoOsMatch", "Updated", "Failed"}

\* The batch folded without being awaited
AllSettled_NotAwaited(b, t) == TRUE

\* Promise.allSettled(batch) resolves once every promise of the batch has settled
AllSettled(b, t) == \A k \in 1..Len(b) : Settled(t[b[k]])

\* The fold without the test of res.value.updated: every fulfilled promise counts
FoldUpdated_AnyFulfilled(b, t) ==
    Cardinality({k \in 1..Len(b) :
        t[b[k]] \in {"Updated", "SkippedAlreadyProcessed", "SkippedNoOsMatch"}})

\* results.forEach: res.status === "fulfilled" && res.value.updated
FoldUpdated(b, t) == Cardinality({k \in 1..Len(b) : t[b[k]] = "Updated"})

----------------------------------------------------------------------------
(* Inputs *)

Row(s, z, a) == [suid |-> s, zid |-> z, sourceApp |-> a]

RowKinds ==
    { Row("s1", "z1", << "m","a","c" >>),
      Row("s2", "z1", StrWindows),
      Row("s1", "z2", << "M","A","C" >>),
      Row("s1", "z1", << "l","i","n","u","x" >>),
      Row("",   "z1", << "m","a","c" >>),
      Row("s1", "",   StrWindows),
      Row("s1", "z2", << >>) }

SeqsUpTo(S, n) == UNION { [1..k -> S] : k \in 0..n }

DeviceItem(suid, zid) ==
    [pk |-> suid, sk |-> "device#" \o zid, name |-> StrDesktopAgent,
     recordType |-> "device", type |-> "desktop"]

InitialTables ==
    { << >>,
      (ItemKey("s1", "z1") :> DeviceItem("s1", "z1")) }

----------------------------------------------------------------------------
(* The run *)

Init ==
    /\ pc = "main"
    /\ fileExists \in BOOLEAN
    /\ rows \in (IF fileExists THEN SeqsUpTo(RowKinds, MaxRows) ELSE { << >> })
    /\ CONCURRENCY_LIMIT \in (IF fileExists THEN 1..MaxW ELSE {1})
    /\ unhandledRejections \in (IF fileExists THEN {"throw", "warn"} ELSE {"throw"})
    /\ table \in InitialTables
    /\ processedDevices = {}
    /\ processedCount = 0
    /\ updatedCount = 0
    /\ batch = << >>
    /\ task = [i \in 1..Len(rows) |-> "Unread"]
    /\ errorLog = << >>
    /\ summary = << >>
    /\ exitCode = -1
    /\ storeOps = << >>
    /\ fnArgs = << >>
    /\ fnResult = << >>

\* main without the fs.existsSync test: the stream is opened all the same
MainFileMissing_NotTested ==
    /\ pc = "main"
    /\ ~fileExists
    /\ pc' = "read"
    /\ UNCHANGED << fnArgs, fnResult, storeOps, fileExists, rows, CONCURRENCY_LIMIT, unhandledRejections, table,
                    processedDevices, processedCount, updatedCount, batch, task,
                    errorLog, summary, exitCode >>

\* main, lines 564-567: the file is missing
MainFileMissing ==
    /\ pc = "main"
    /\ ~fileExists
    /\ errorLog' = Append(errorLog, [msg |-> "CSV file not found", suid |-> "", zid |-> ""])
    /\ exitCode' = 1
    /\ pc' = "exited"
    /\ UNCHANGED << fnArgs, fnResult, storeOps, fileExists, rows, CONCURRENCY_LIMIT, unhandledRejections, table,
                    processedDevices, processedCount, updatedCount, batch, task, summary >>

\* main, lines 569-576: processCsvFile is entered and the stream opened
MainStart ==
    /\ pc = "main"
    /\ fileExists
    /\ pc' = "read"
    /\ UNCHANGED << fnArgs, fnResult, storeOps, fileExists, rows, CONCURRENCY_LIMIT, unhandledRejections, table,
                    processedDevices, processedCount, updatedCount, batch, task,
                    errorLog, summary, exitCode >>

\* One iteration of the for-await loop, lines 522-542, up to its next await
ReadRow ==
    /\ pc = "read"
    /\ processedCount < Len(rows)
    /\ LET i == processedCount + 1
           row == rows[i]
       IN  /\ processedCount' = i
           /\ IF ~isValidRow(row)
              THEN /\ task' = [task EXCEPT ![i] = "SkippedInvalid"]
                   /\ UNCHANGED << batch, pc >>
              ELSE /\ task' = [task EXCEPT ![i] = processRow(row, processedDevices)]
                   /\ IF BatchFull(Append(batch, i), CONCURRENCY_LIMIT)
                      THEN pc' = "await"
                      ELSE pc' = "read"
                   /\ batch' = Append(batch, i)
    /\ UNCHANGED << fnArgs, fnResult, storeOps, fileExists, rows, CONCURRENCY_LIMIT, unhandledRejections, table,
                    processedDevices, updatedCount, errorLog, summary, exitCode >>

\* The store answers the update of row i with success: processRow resumes
\* after its await (lines 510-512)
UpdateSucceeds(i) ==
    /\ pc # "exited"
    /\ task[i] = "InFlight"
    /\ table' = updateItemWithOs(table, rows[i].suid, rows[i].zid,
                                 getOsFromSourceApp(rows[i].sourceApp))
    /\ processedDevices' = processedDevices \cup {rows[i].zid}
    /\ task' = [task EXCEPT ![i] = "Updated"]
    /\ UNCHANGED << pc, fnArgs, fnResult, storeOps, fileExists, rows, CONCURRENCY_LIMIT, unhandledRejections,
                    processedCount, updatedCount, batch, errorLog, summary, exitCode >>

\* The update of row i fails and its zid is put in the dedup set all the same
UpdateFails_MarksDevice(i) ==
    /\ pc # "exited"
    /\ task[i] = "InFlight"
    /\ task' = [task EXCEPT ![i] = "Failed"]
    /\ processedDevices' = processedDevices \cup {rows[i].zid}
    /\ IF pc = "read" /\ unhandledRejections = "throw"
       THEN /\ pc' = "exited"
            /\ exitCode' = 1
       ELSE UNCHANGED << pc, exitCode >>
    /\ UNCHANGED << fnArgs, fnResult, storeOps, fileExists, rows, CONCURRENCY_LIMIT, unhandledRejections, table,
                    processedCount, updatedCount, batch, errorLog, summary >>

\* The store answers the update of row i with an error: the promise of
\* processRow rejects.  No handler is attached to it before
\* Promise.allSettled(batch) is called (lines 532, 546); a rejection that
\* arrives while the loop awaits the next row is unhandled, and the runtime
\* either raises it as an uncaught exception (exit code 1) or only warns.
UpdateFails(i) ==
    /\ pc # "exited"
    /\ task[i] = "InFlight"
    /\ task' = [task EXCEPT ![i] = "Failed"]
    /\ IF pc = "read" /\ unhandledRejections = "throw"
       THEN /\ pc' = "exited"
            /\ exitCode' = 1
       ELSE UNCHANGED << pc, exitCode >>
    /\ UNCHANGED << fnArgs, fnResult, storeOps, fileExists, rows, CONCURRENCY_LIMIT, unhandledRejections, table,
                    processedDevices, processedCount, updatedCount, batch, errorLog,
                    summary >>

\* Lines 532-536: the awaited Promise.allSettled(batch) of a full window resolves
SettleWindow ==
    /\ pc = "await"
    /\ AllSettled(batch, task)
    /\ updatedCount' = updatedCount + FoldUpdated(batch, task)
    /\ batch' = << >>
    /\ pc' = "read"
    /\ UNCHANGED << fnArgs, fnResult, storeOps, fileExists, rows, CONCURRENCY_LIMIT, unhandledRejections, table,
                    processedDevices, processedCount, task, errorLog, summary, exitCode >>

\* main, lines 578-585, and process.exit(0)
Summary(processed, updated) ==
    /\ summary' = << [processed |-> processed, updated |-> updated,
                      devices |-> Cardinality(processedDevices)] >>
    /\ exitCode' = 0
    /\ pc' = "exited"

\* The end of the stream without the flush of lines 545-550: processCsvFile
\* returns while the last, partial window is still unsettled
EndOfStreamFlush_NotAwaited ==
    /\ pc = "read"
    /\ processedCount = Len(rows)
    /\ Len(batch) > 0
    /\ Summary(processedCount, updatedCount)
    /\ UNCHANGED << fnArgs, fnResult, storeOps, fileExists, rows, CONCURRENCY_LIMIT,
                    unhandledRejections, table, processedDevices, processedCount,
                    updatedCount, batch, task, errorLog >>

\* The stream ends: line 545 with a non-empty batch
EndOfStreamFlush ==
    /\ pc = "read"
    /\ processedCount = Len(rows)
    /\ Len(batch) > 0
    /\ pc' = "flush"
    /\ UNCHANGED << fnArgs, fnResult, storeOps, fileExists, rows, CONCURRENCY_LIMIT, unhandledRejections, table,
                    processedDevices, processedCount, updatedCount, batch, task,
                    errorLog, summary, exitCode >>

\* The stream ends with an empty batch: processCsvFile returns
EndOfStreamEmpty ==
    /\ pc = "read"
    /\ processedCount = Len(rows)
    /\ Len(batch) = 0
    /\ Summary(processedCount, updatedCount)
    /\ UNCHANGED << fnArgs, fnResult, storeOps, fileExists, rows, CONCURRENCY_LIMIT, unhandledRejections, table,
                    processedDevices, processedCount, updatedCount, batch, task,
                    errorLog >>

\* Lines 546-555: the awaited Promise.allSettled of the last, partial window
\* resolves and processCsvFile returns
FlushSettled ==
    /\ pc = "flush"
    /\ AllSettled(batch, task)
    /\ updatedCount' = updatedCount + FoldUpdated(batch, task)
    /\ Summary(processedCount, updatedCount')
    /\ UNCHANGED << fnArgs, fnResult, storeOps, fileExists, rows, CONCURRENCY_LIMIT, unhandledRejections, table,
                    processedDevices, processedCount, batch, task, errorLog >>

Next ==
    \/ MainFileMissing
    \/ MainStart
    \/ ReadRow
    \/ \E i \in 1..Len(rows) : UpdateSucceeds(i)
    \/ \E i \in 1..Len(rows) : UpdateFails(i)
    \/ SettleWindow
    \/ EndOfStreamFlush
    \/ EndOfStreamEmpty
    \/ FlushSettled

Spec == Init /\ [][Next]_vars

----------------------------------------------------------------------------
(* The run on the input of the eight-row scenario, every store call succeeding *)

\* 3 valid Mac rows, 2 valid Windows rows, 1 row with an unknown sourceApp,
\* 1 row with an empty suid, and 1 row with the zid of the first Mac row
ScenarioRows ==
    << Row("s1", "z1", << "m","a","c" >>),
       Row("s1", "z2", << "M","A","C" >>),
       Row("s2", "z3", StrMac),
       Row("s1", "z4", StrWindows),
       Row("s2", "z5", << "w","i","n","d","o","w","s" >>),
       Row("s1", "z6", << "l","i","n","u","x" >>),
       Row("",   "z7", << "m","a","c" >>),
       Row("s1", "z1", << "m","a","c" >>) >>

RECURSIVE Perms(_)
Perms(S) ==
    IF S = {} THEN { << >> }
    ELSE UNION { { << x >> \o p : p \in Perms(S \ {x}) } : x \in S }

\* Every order of the rows (the duplicate is the later of the two equal rows)
ScenarioOrders ==
    { [k \in 1..Len(ScenarioRows) |-> ScenarioRows[p[k]]] :
        p \in Perms(1..Len(ScenarioRows)) }

InitScenario ==
    /\ pc = "main"
    /\ fileExists = TRUE
    /\ rows \in ScenarioOrders
    /\ CONCURRENCY_LIMIT \in 1..MaxW
    /\ unhandledRejections = "throw"
    /\ table = << >>
    /\ processedDevices = {}
    /\ processedCount = 0
    /\ updatedCount = 0
    /\ batch = << >>
    /\ task = [i \in 1..Len(rows) |-> "Unread"]
    /\ errorLog = << >>
    /\ summary = << >>
    /\ exitCode = -1
    /\ storeOps = << >>
    /\ fnArgs = << >>
    /\ fnResult = << >>

NextScenario ==
    \/ MainStart
    \/ ReadRow
    \/ \E i \in 1..Len(rows) : UpdateSucceeds(i)
    \/ SettleWindow
    \/ EndOfStreamFlush
    \/ EndOfStreamEmpty
    \/ FlushSettled

SpecScenario == InitScenario /\ [][NextScenario]_vars

----------------------------------------------------------------------------
(* The sequential script, src/process_device_names.js.  It runs on the same *)
(* variables: pc, fileExists, rows, table, processedCount, updatedCount,    *)
(* task, errorLog, summary, exitCode and storeOps; batch, processedDevices, *)
(* CONCURRENCY_LIMIT and unhandledRejections are not part of it.            *)

StrDesktopAgentLower == << "d","e","s","k","t","o","p"," ","a","g","e","n","t" >>

\* shouldUpdateItem(item) without the comparison of the name
seqShouldUpdateItem_NameNotCompared(item) ==
    /\ "name" \in DOMAIN item
    /\ item.name # << >>

\* shouldUpdateItem(item), lines 162-169
seqShouldUpdateItem(item) ==
    /\ "name" \in DOMAIN item
    /\ item.name # << >>
    /\ toLowerCase(item.name) = StrDesktopAgentLower
    /\ ~includes(item.name, StrMac)
    /\ ~includes(item.name, StrWindows)

\* getDynamoDbItem: the ProjectionExpression keeps pk, sk, name, recordType,
\* type and os of the item under the key
ProjectItem(item) ==
    [a \in (DOMAIN item) \cap {"pk", "sk", "name", "recordType", "type", "os"} |-> item[a]]

\* scanDeviceCount, lines 27-64: the sum of the Count of every page of the
\* scan, i.e. the number of items that pass the filter
scanDeviceCount(tbl) ==
    Cardinality({ k \in DOMAIN tbl :
        /\ {"recordType", "type", "name"} \subseteq DOMAIN tbl[k]
        /\ tbl[k].recordType = "device"
        /\ tbl[k].type = "desktop"
        /\ tbl[k].name = StrDesktopAgent })

\* Items a table holds when the script starts: untouched, in another case,
\* as an earlier run left them, of another kind, and without a name
NamedItem(suid, zid, name) == [DeviceItem(suid, zid) EXCEPT !.name = name]

SeqInitialTables ==
    { << >>,
      (ItemKey("s1", "z1") :> DeviceItem("s1", "z1")),
      (ItemKey("s1", "z1") :> NamedItem("s1", "z1", toLowerCase(StrDesktopAgent)))
          @@ (ItemKey("s2", "z1") :> DeviceItem("s2", "z1")),
      seqUpdateItemWithOs((ItemKey("s1", "z1") :> DeviceItem("s1", "z1")),
                          "s1", "z1", StrMac)
          @@ (ItemKey("s1", "z2") :> DeviceItem("s1", "z2")),
      (ItemKey("s1", "z1") :> NamedItem("s1", "z1", << "P","h","o","n","e" >>))
          @@ (ItemKey("s1", "z2") :>
                 [pk |-> "s1", sk |-> "device#z2", recordType |-> "device"]) }

InitSeq ==
    /\ pc = "main"
    /\ fileExists \in BOOLEAN
    /\ rows \in (IF fileExists THEN SeqsUpTo(RowKinds, MaxRows) ELSE { << >> })
    /\ table \in SeqInitialTables
    /\ CONCURRENCY_LIMIT = 1
    /\ unhandledRejections = "throw"
    /\ processedDevices = {}
    /\ processedCount = 0
    /\ updatedCount = 0
    /\ batch = << >>
    /\ task = [i \in 1..Len(rows) |-> "Unread"]
    /\ errorLog = << >>
    /\ summary = << >>
    /\ exitCode = -1
    /\ storeOps = << >>
    /\ fnArgs = << >>
    /\ fnResult = << >>

\* main, lines 220-223
SeqMainFileMissing ==
    /\ pc = "main"
    /\ ~fileExists
    /\ errorLog' = Append(errorLog, [msg |-> "CSV file not found", suid |-> "", zid |-> ""])
    /\ exitCode' = 1
    /\ pc' = "exited"
    /\ UNCHANGED << fnArgs, fnResult, storeOps, fileExists, rows, CONCURRENCY_LIMIT,
                    unhandledRejections, table, processedDevices, processedCount,
                    updatedCount, batch, task, summary >>

\* main, lines 225-233: processCsvFile is entered
SeqMainStart ==
    /\ pc = "main"
    /\ fileExists
    /\ pc' = "read"
    /\ UNCHANGED << fnArgs, fnResult, storeOps, fileExists, rows, CONCURRENCY_LIMIT,
                    unhandledRejections, table, processedDevices, processedCount,
                    updatedCount, batch, task, errorLog, summary, exitCode >>

\* Lines 94-107: the loop takes the next row and, when it is valid, issues
\* the get and awaits it
SeqReadRow ==
    /\ pc = "read"
    /\ processedCount < Len(rows)
    /\ LET i == processedCount + 1
       IN  /\ processedCount' = i
           /\ IF ~isValidRow(rows[i])
              THEN /\ task' = [task EXCEPT ![i] = "SkippedInvalid"]
                   /\ UNCHANGED << pc, storeOps >>
              ELSE /\ task' = [task EXCEPT ![i] = "Getting"]
                   /\ storeOps' = Append(storeOps, [op |-> "get", row |-> i])
                   /\ pc' = "get"
    /\ UNCHANGED << fnArgs, fnResult, fileExists, rows, CONCURRENCY_LIMIT,
                    unhandledRejections, table, processedDevices, updatedCount,
                    batch, errorLog, summary, exitCode >>

\* What lines 109-127 do with the item the get returned (NoItem: none)
SeqDecide(row, tbl) ==
    LET key == ItemKey(row.suid, row.zid)
    IN  IF key \notin DOMAIN tbl THEN "NoItem"
        ELSE IF ~seqShouldUpdateItem(ProjectItem(tbl[key])) THEN "SkippedAlreadyProcessed"
        ELSE IF getOsFromSourceApp(row.sourceApp) = Null THEN "SkippedNoOsMatch"
        ELSE "Updating"

\* The get returns: lines 107-127, up to the await of the update
SeqGetReturns ==
    /\ pc = "get"
    /\ LET i == processedCount
           d == SeqDecide(rows[i], table)
       IN  /\ task' = [task EXCEPT ![i] = d]
           /\ IF d = "Updating"
              THEN /\ storeOps' = Append(storeOps, [op |-> "update", row |-> i])
                   /\ pc' = "update"
              ELSE /\ pc' = "read"
                   /\ UNCHANGED storeOps
    /\ UNCHANGED << fnArgs, fnResult, fileExists, rows, CONCURRENCY_LIMIT,
                    unhandledRejections, table, processedDevices, processedCount,
                    updatedCount, batch, errorLog, summary, exitCode >>

\* The get or the update of the row fails with no catch around it: the error
\* reaches main, which returns 1
SeqStoreFails_Uncaught ==
    /\ pc \in {"get", "update"}
    /\ task' = [task EXCEPT ![processedCount] = "Failed"]
    /\ exitCode' = 1
    /\ pc' = "exited"
    /\ UNCHANGED << fnArgs, fnResult, storeOps, fileExists, rows, CONCURRENCY_LIMIT,
                    unhandledRejections, table, processedDevices, processedCount,
                    updatedCount, batch, errorLog, summary >>

\* The get or the update of the row fails: the catch of lines 128-130
SeqStoreFails ==
    /\ pc \in {"get", "update"}
    /\ LET i == processedCount
       IN  /\ task' = [task EXCEPT ![i] = "Failed"]
           /\ errorLog' = Append(errorLog, [msg |-> "Error processing",
                                            suid |-> rows[i].suid, zid |-> rows[i].zid])
    /\ pc' = "read"
    /\ UNCHANGED << fnArgs, fnResult, storeOps, fileExists, rows, CONCURRENCY_LIMIT,
                    unhandledRejections, table, processedDevices, processedCount,
                    updatedCount, batch, summary, exitCode >>

\* The update returns: lines 121-122
SeqUpdateReturns ==
    /\ pc = "update"
    /\ LET i == processedCount
       IN  /\ table' = seqUpdateItemWithOs(table, rows[i].suid, rows[i].zid,
                                           getOsFromSourceApp(rows[i].sourceApp))
           /\ task' = [task EXCEPT ![i] = "Updated"]
    /\ updatedCount' = updatedCount + 1
    /\ pc' = "read"
    /\ UNCHANGED << fnArgs, fnResult, storeOps, fileExists, rows, CONCURRENCY_LIMIT,
                    unhandledRejections, processedDevices, processedCount, batch,
                    errorLog, summary, exitCode >>

\* The stream ends: lines 135-136 and main, lines 235-240
SeqEndOfStream ==
    /\ pc = "read"
    /\ processedCount = Len(rows)
    /\ summary' = << [processed |-> processedCount, updated |-> updatedCount] >>
    /\ exitCode' = 0
    /\ pc' = "exited"
    /\ UNCHANGED << fnArgs, fnResult, storeOps, fileExists, rows, CONCURRENCY_LIMIT,
                    unhandledRejections, table, processedDevices, processedCount,
                    updatedCount, batch, task, errorLog >>

NextSeq ==
    \/ SeqMainFileMissing
    \/ SeqMainStart
    \/ SeqReadRow
    \/ SeqGetReturns
    \/ SeqStoreFails
    \/ SeqUpdateReturns
    \/ SeqEndOfStream

SpecSeq == InitSeq /\ [][NextSeq]_vars

----------------------------------------------------------------------------
(* The helpers called on their own *)

\* The variables of the runs, at rest while a helper is called on its own
RunAtRest ==
    /\ pc = "helper"
    /\ fileExists = FALSE
    /\ rows = << >>
    /\ CONCURRENCY_LIMIT = 1
    /\ unhandledRejections = "throw"
    /\ processedDevices = {}
    /\ processedCount = 0
    /\ updatedCount = 0
    /\ batch = << >>
    /\ task = << >>
    /\ errorLog = << >>
    /\ summary = << >>
    /\ exitCode = -1
    /\ storeOps = << >>

RECURSIVE Concat(_)
Concat(parts) == IF parts = << >> THEN << >> ELSE Head(parts) \o Concat(Tail(parts))

Fragments ==
    { << "m","a","c" >>, << "M","A","C" >>, StrMac, << "m","a" >>, << "c" >>,
      << "w","i","n","d","o","w","s" >>, StrWindows, << "W","I","N" >>,
      << "d","o","w","s" >>, << "x" >>, << " " >> }

\* The strings handed to getOsFromSourceApp
SourceApps == { Concat(parts) : parts \in SeqsUpTo(Fragments, MaxParts) }

InitOs ==
    /\ RunAtRest
    /\ table = << >>
    /\ fnArgs \in { [sourceApp |-> a] : a \in SourceApps }
    /\ fnResult = << >>

\* getOsFromSourceApp(sourceApp) is called
CallGetOsFromSourceApp ==
    /\ pc = "helper"
    /\ "sourceApp" \in DOMAIN fnArgs
    /\ fnResult = << >>
    /\ fnResult' = << getOsFromSourceApp(fnArgs.sourceApp) >>
    /\ UNCHANGED << pc, fnArgs, storeOps, fileExists, rows, CONCURRENCY_LIMIT,
                    unhandledRejections, table, processedDevices, processedCount,
                    updatedCount, batch, task, errorLog, summary, exitCode >>

NextOs == CallGetOsFromSourceApp

SpecOs == InitOs /\ [][NextOs]_vars

Scripts == {"migrate_client_credentials.mjs", "process_device_names.js"}

\* Tables updateItemWithOs is applied to
UpdateTables ==
    { << >>,
      (ItemKey("s1", "z1") :> DeviceItem("s1", "z1")),
      (ItemKey("s1", "z1") :> DeviceItem("s1", "z1"))
          @@ (ItemKey("s2", "z1") :> DeviceItem("s2", "z1")),
      (ItemKey("s1", "z1") :>
          [pk |-> "s1", sk |-> "device#z1", name |-> newName(StrWindows),
           os |-> << "l","i","n","u","x" >>, recordType |-> "device"])
          @@ (ItemKey("s1", "z2") :> DeviceItem("s1", "z2")) }

InitUpdate ==
    /\ RunAtRest
    /\ table \in UpdateTables
    /\ fnArgs \in { [script |-> sc, before |-> table, suid |-> s, zid |-> z, osValue |-> o] :
                      sc \in Scripts, s \in {"s1", "s2"}, z \in {"z1", "z2"},
                      o \in {StrMac, StrWindows} }
    /\ fnResult = << >>

\* updateItemWithOs(docClient, suid, zid, osValue) is called and the store
\* applies the update; fnResult keeps the table after each call
CallUpdateItemWithOs ==
    /\ pc = "helper"
    /\ "script" \in DOMAIN fnArgs
    /\ Len(fnResult) < MaxCalls
    /\ table' = IF fnArgs.script = "process_device_names.js"
                THEN seqUpdateItemWithOs(table, fnArgs.suid, fnArgs.zid, fnArgs.osValue)
                ELSE updateItemWithOs(table, fnArgs.suid, fnArgs.zid, fnArgs.osValue)
    /\ fnResult' = Append(fnResult, table')
    /\ UNCHANGED << pc, fnArgs, storeOps, fileExists, rows, CONCURRENCY_LIMIT,
                    unhandledRejections, processedDevices, processedCount,
                    updatedCount, batch, task, errorLog, summary, exitCode >>

NextUpdate == CallUpdateItemWithOs

SpecUpdate == InitUpdate /\ [][NextUpdate]_vars

----------------------------------------------------------------------------
(* Vocabulary of the properties *)

\* The store update of row i has been dispatched (docClient.update was called)
Dispatched(i) == task[i] \in {"InFlight", "Updated", "Failed"}

InFlightTasks == {i \in 1..Len(rows) : task[i] = "InFlight"}

CountOutcome(o) == Cardinality({i \in 1..Len(rows) : task[i] = o})

\* The window a valid row belongs to: valid rows are grouped W by W in stream order
ValidBefore(i) == Cardinality({j \in 1..(i - 1) : isValidRow(rows[j])})
WindowOf(i) == ValidBefore(i) \div CONCURRENCY_LIMIT

RunEnded == pc = "exited"
SummaryPrinted == summary # << >>

----------------------------------------------------------------------------
(* C1 *)

\* C1: for any two rows of one run with the same zid, only the first in
\* stream order has a store update dispatched, whatever the window size and
\* the distance between them, also when the first update fails.
C1_AtMostOneDispatchPerZid ==
    \A i, j \in 1..Len(rows) :
        (i < j /\ rows[i].zid = rows[j].zid /\ Dispatched(i)) => ~Dispatched(j)

(* C2 *)

\* C2: the dedup set is marked at admission: whenever the update of a zid is
\* in flight, has succeeded or has failed, the zid is in processedDevices.
C2_MarkedBeforeCompletion ==
    \A i \in 1..Len(rows) : Dispatched(i) => rows[i].zid \in processedDevices

(* C3 *)

\* C3: in every reachable state the number of store updates dispatched and
\* not yet settled is at most the window size W.
C3_WindowBound == Cardinality(InFlightTasks) <= CONCURRENCY_LIMIT

C3_Witness ==
    /\ CONCURRENCY_LIMIT >= 2
    /\ Cardinality(InFlightTasks) = CONCURRENCY_LIMIT

(* C4 *)

\* C4: windows are strictly sequential: while the accumulator holds W tasks
\* no row is read, and a task of a later window is admitted only when every
\* task of every earlier window has settled.
C4_WindowsSequential ==
    /\ pc = "read" => Len(batch) < CONCURRENCY_LIMIT
    /\ \A i, j \in 1..Len(rows) :
          ( /\ isValidRow(rows[i]) /\ isValidRow(rows[j])
            /\ WindowOf(i) < WindowOf(j)
            /\ task[j] # "Unread" )
          => Settled(task[i])

C4_Witness ==
    \E i, j \in 1..Len(rows) :
        /\ isValidRow(rows[i]) /\ isValidRow(rows[j])
        /\ WindowOf(i) < WindowOf(j)
        /\ Dispatched(i)
        /\ task[j] = "InFlight"
        /\ CONCURRENCY_LIMIT >= 2

(* C5 *)

\* C5: a failing store update cancels no sibling and does not stop the
\* stream: a run in which an update failed still ends with every row read
\* and every dispatched update settled.
C5_FailureIsolation ==
    (RunEnded /\ \E i \in 1..Len(rows) : task[i] = "Failed")
    => /\ processedCount = Len(rows)
       /\ InFlightTasks = {}

(* C6 *)

\* C6: a run whose input file exists ends with the summary printed and exit
\* code 0, whatever store updates fail and whenever they fail.
C6_ExitZeroWithSummary ==
    (RunEnded /\ fileExists) => (exitCode = 0 /\ SummaryPrinted)

(* C7 *)

\* C7: at run end updated is the number of store updates that succeeded, and
\* every failed store update has been recorded: logged through logger.error
\* with the suid and zid of its row.
C7_FailuresRecorded ==
    SummaryPrinted =>
        /\ summary[1].updated = CountOutcome("Updated")
        /\ \A i \in 1..Len(rows) :
              task[i] = "Failed" =>
                  \E k \in 1..Len(errorLog) :
                      /\ errorLog[k].suid = rows[i].suid
                      /\ errorLog[k].zid = rows[i].zid

(* C8 *)

\* C8: when the input file does not exist no row is read, no store update is
\* dispatched, the summary is not printed, and the run ends with a non-zero
\* exit code.
C8_MissingFile ==
    ~fileExists =>
        /\ processedCount = 0
        /\ batch = << >>
        /\ \A i \in 1..Len(rows) : ~Dispatched(i)
        /\ ~SummaryPrinted
        /\ pc \in {"main", "exited"}
        /\ RunEnded => exitCode = 1

C8_Witness == ~fileExists /\ RunEnded /\ Len(errorLog) = 1

(* C9 *)

\* C9: the store update never creates a record: no step of a run adds a key
\* to the table.
C9_NeverCreates == [][DOMAIN table' \subseteq DOMAIN table]_vars

(* C10 *)

\* C10: when the summary is printed every row has exactly one outcome among
\* Updated, SkippedInvalid, SkippedNoOsMatch, SkippedAlreadyProcessed and
\* Failed, and processed = updated + failed + skipped-invalid +
\* skipped-no-match + skipped-duplicate.
C10_OneOutcomePerRow ==
    SummaryPrinted =>
        /\ \A i \in 1..Len(rows) :
              task[i] \in {"Updated", "SkippedInvalid", "SkippedNoOsMatch",
                           "SkippedAlreadyProcessed", "Failed"}
        /\ summary[1].processed = Len(rows)
        /\ summary[1].processed =
              summary[1].updated + CountOutcome("Failed")
              + CountOutcome("SkippedInvalid") + CountOutcome("SkippedNoOsMatch")
              + CountOutcome("SkippedAlreadyProcessed")

C10_Witness ==
    /\ SummaryPrinted
    /\ CountOutcome("Updated") >= 1
    /\ CountOutcome("Failed") >= 1
    /\ CountOutcome("SkippedAlreadyProcessed") + CountOutcome("SkippedNoOsMatch")
       + CountOutcome("SkippedInvalid") >= 1

(* C11 *)

\* A row with suid, zid or sourceApp missing or empty
Incomplete(row) == row.suid = "" \/ row.zid = "" \/ row.sourceApp = << >>

\* The loop has just read row i
JustRead(i) == processedCount' = i /\ processedCount = i - 1

\* C11: reading a row in which suid, zid or sourceApp is missing or empty
\* only counts it as processed: no task enters the window, no store call is
\* made, the table and the dedup set are untouched, and the loop goes on to
\* the next row.
C11_InvalidRowSkipped ==
    [][\A i \in 1..Len(rows) :
          (JustRead(i) /\ Incomplete(rows[i]))
          => /\ batch' = batch
             /\ ~Dispatched(i)'
             /\ task'[i] = "SkippedInvalid"
             /\ table' = table
             /\ processedDevices' = processedDevices
             /\ pc' = "read"]_vars

C11_Witness ==
    \E i, j \in 1..Len(rows) :
        /\ i < j
        /\ Incomplete(rows[i]) /\ rows[i].suid # ""
        /\ task[i] = "SkippedInvalid"
        /\ Dispatched(j)

(* C12 *)

C16_AllWorkSettledAtSummary ==
    SummaryPrinted =>
        /\ InFlightTasks = {}
        /\ \A i \in 1..Len(rows) : Dispatched(i) => task[i] \in {"Updated", "Failed"}
        /\ summary[1].updated = CountOutcome("Updated")

\* The run ended through the flush of a partial final window
C16_Witness ==
    /\ SummaryPrinted
    /\ CONCURRENCY_LIMIT >= 2
    /\ Len(batch) > 0
    /\ Len(batch) < CONCURRENCY_LIMIT
    /\ \E k \in 1..Len(batch) : task[batch[k]] = "Updated"

(* C20 *)

\* C20: whether a valid, classifiable row is admitted depends only on
\* whether its zid is in the dedup set as it is read, whatever its suid.
C20_DedupKeyedByZid ==
    [][\A i \in 1..Len(rows) :
          ( /\ JustRead(i)
            /\ ~Incomplete(rows[i])
            /\ getOsFromSourceApp(rows[i].sourceApp) # Null )
          => ( Dispatched(i)' <=> rows[i].zid \notin processedDevices )]_vars

\* A row skipped because a row with the same zid and another suid was updated
C20_Witness ==
    \E i, j \in 1..Len(rows) :
        /\ i < j
        /\ rows[i].zid = rows[j].zid
        /\ rows[i].suid # rows[j].suid
        /\ task[i] = "Updated"
        /\ getOsFromSourceApp(rows[j].sourceApp) # Null
        /\ task[j] = "SkippedAlreadyProcessed"

(* C13 *)

\* s holds word at some position when case is ignored (word in lower case)
ContainsIgnoringCase(s, word) ==
    \E i \in 1..Len(s) :
        /\ i + Len(word) - 1 <= Len(s)
        /\ \A k \in 1..Len(word) : LowerChar(s[i + k - 1]) = word[k]

\* C13: getOsFromSourceApp returns "Mac" for every string whose lowercase
\* form contains "mac" (also when it contains "windows" too), "Windows" for
\* every other string whose lowercase form contains "windows", and null for
\* every remaining string.
C13_Classifier ==
    (pc = "helper" /\ "sourceApp" \in DOMAIN fnArgs /\ fnResult # << >>) =>
        fnResult[1] =
            IF ContainsIgnoringCase(fnArgs.sourceApp, << "m","a","c" >>)
            THEN << "M","a","c" >>
            ELSE IF ContainsIgnoringCase(fnArgs.sourceApp, << "w","i","n","d","o","w","s" >>)
            THEN << "W","i","n","d","o","w","s" >>
            ELSE << >>

\* A string holding both words, in mixed case, has been classified
C13_Witness ==
    /\ pc = "helper" /\ "sourceApp" \in DOMAIN fnArgs /\ fnResult # << >>
    /\ ContainsIgnoringCase(fnArgs.sourceApp, << "m","a","c" >>)
    /\ ContainsIgnoringCase(fnArgs.sourceApp, << "w","i","n","d","o","w","s" >>)
    /\ fnArgs.sourceApp # toLowerCase(fnArgs.sourceApp)
    /\ fnResult[1] = StrMac

(* C14 *)

NameWithOs(osValue) ==
    IF osValue = << "M","a","c" >>
    THEN << "D","e","s","k","t","o","p"," ","A","g","e","n","t"," ","(","M","a","c",")" >>
    ELSE << "D","e","s","k","t","o","p"," ","A","g","e","n","t"," ",
            "(","W","i","n","d","o","w","s",")" >>

LowerOs(osValue) ==
    IF osValue = << "M","a","c" >> THEN << "m","a","c" >>
    ELSE << "w","i","n","d","o","w","s" >>

\* After each call the item under the key has the name and the os, and every
\* other key of the table is as before the first call
UpdatedAs(t, os) ==
    LET key == [pk |-> fnArgs.suid, sk |-> "device#" \o fnArgs.zid]
    IN  /\ key \in DOMAIN t
        /\ t[key].name = NameWithOs(fnArgs.osValue)
        /\ t[key].os = os
        /\ DOMAIN t = DOMAIN fnArgs.before \cup {key}
        /\ \A k \in DOMAIN fnArgs.before : k # key => t[k] = fnArgs.before[k]

\* C14: applying updateItemWithOs twice with the same (suid, zid, osTag)
\* leaves the table as applying it once does: the item under the key has
\* name = "Desktop Agent (<OsTag>)" and os = the lowercase osTag, every other
\* key unchanged.
C14_IdempotentLowercaseOs ==
    (pc = "helper" /\ "script" \in DOMAIN fnArgs) =>
        /\ \A n \in 1..Len(fnResult) : UpdatedAs(fnResult[n], LowerOs(fnArgs.osValue))
        /\ \A n \in 2..Len(fnResult) : fnResult[n] = fnResult[1]

\* C14 as amended: the update is idempotent in both scripts, with name =
\* "Desktop Agent (<OsTag>)" and every other key unchanged; os is the
\* lowercase osTag in migrate_client_credentials.mjs and the osTag as given
\* ("Mac", "Windows") in process_device_names.js.
C14_IdempotentPerScript ==
    (pc = "helper" /\ "script" \in DOMAIN fnArgs) =>
        /\ \A n \in 1..Len(fnResult) :
              UpdatedAs(fnResult[n],
                        IF fnArgs.script = "process_device_names.js"
                        THEN fnArgs.osValue
                        ELSE LowerOs(fnArgs.osValue))
        /\ \A n \in 2..Len(fnResult) : fnResult[n] = fnResult[1]

\* The update has been applied twice to a table holding the item and another
C14_Witness ==
    /\ pc = "helper" /\ "script" \in DOMAIN fnArgs
    /\ Len(fnResult) >= 2
    /\ [pk |-> fnArgs.suid, sk |-> "device#" \o fnArgs.zid] \in DOMAIN fnArgs.before
    /\ Cardinality(DOMAIN fnArgs.before) >= 2
    /\ fnResult[1] # fnArgs.before

(* C15 *)

\* C15: on the input of the scenario, every store call succeeding, the
\* summary is processed=7, updated=5, skipped-invalid=1, skipped-no-match=1,
\* skipped-duplicate=1, for every order of the rows and every window size.
C15_ScenarioSummary ==
    SummaryPrinted =>
        /\ summary[1].processed = 7
        /\ summary[1].updated = 5
        /\ CountOutcome("SkippedInvalid") = 1
        /\ CountOutcome("SkippedNoOsMatch") = 1
        /\ CountOutcome("SkippedAlreadyProcessed") = 1

(* C19 *)

\* C19: for every finite stream and every window size, provided every
\* dispatched store call settles, the run consumes the whole stream, prints
\* the summary and exits: a run on an existing file never stops short of
\* that, i.e. in every state it has read every row, printed the summary and
\* exited, or a step of the run or the settlement of a store call is still
\* to come.
C19_RunsToSummary ==
    fileExists =>
        \/ RunEnded /\ SummaryPrinted /\ processedCount = Len(rows)
        \/ ENABLED Next

(* C17 *)

\* The item under the key of row i is stored with a name equal to
\* 'Desktop Agent' when case is ignored
StoredAsDesktopAgent(tbl, i) ==
    LET key == [pk |-> rows[i].suid, sk |-> "device#" \o rows[i].zid]
    IN  /\ key \in DOMAIN tbl
        /\ "name" \in DOMAIN tbl[key]
        /\ Len(tbl[key].name) = 13
        /\ \A k \in 1..13 :
              LowerChar(tbl[key].name[k])
                  = << "d","e","s","k","t","o","p"," ","a","g","e","n","t" >>[k]

\* C17: the sequential script issues an update for a row only if the stored
\* item exists and its name equals 'Desktop Agent' case-insensitively; the
\* table changes only under such an item, so an item whose name includes the
\* OS is never updated again, and a row whose key has been updated is not
\* updated a second time.
C17_UpdateOnlyPlainDesktopAgent ==
    [][ /\ \A i \in 1..Len(rows) :
              (task'[i] = "Updating" /\ task[i] # "Updating")
              => StoredAsDesktopAgent(table, i)
        /\ table' # table
              => /\ StoredAsDesktopAgent(table, processedCount)
                 /\ DOMAIN table' = DOMAIN table
                 /\ \A k \in DOMAIN table :
                       k # ItemKey(rows[processedCount].suid, rows[processedCount].zid)
                       => table'[k] = table[k]
        /\ \A i, j \in 1..Len(rows) :
              ( /\ i < j
                /\ rows[i].suid = rows[j].suid /\ rows[i].zid = rows[j].zid
                /\ task'[i] = "Updated" )
              => task'[j] \notin {"Updating", "Updated"} ]_vars

\* A row processed a second time after its update: the second is skipped
C17_Witness ==
    \E i, j \in 1..Len(rows) :
        /\ i < j
        /\ rows[i] = rows[j]
        /\ task[i] = "Updated"
        /\ task[j] = "SkippedAlreadyProcessed"

(* C18 *)

\* C18: every run first scans the table to count the items with recordType
\* 'device', type 'desktop' and name 'Desktop Agent', before it processes any
\* CSV row, and reports that total among its metrics: once a row has been
\* taken the first store call of the run is the scan, and the summary carries
\* the total, which is no less than the number of such items left in the
\* table (an update only renames such an item).
C18_ScanFirstAndReported ==
    /\ processedCount >= 1 => (storeOps # << >> /\ storeOps[1].op = "scan")
    /\ SummaryPrinted =>
          /\ "matching" \in DOMAIN summary[1]
          /\ summary[1].matching >= scanDeviceCount(table)

(* C21 *)

\* The zids of the rows whose store update has succeeded
UpdatedZids == { rows[i].zid : i \in { j \in 1..Len(rows) : task[j] = "Updated" } }

\* C21: processedDevices only grows during a run and, at every step up to and
\* including the end of the run, it is exactly the set of zids with at least
\* one successful store update; hence the 'Processed devices in set' of the
\* summary never exceeds the updated count, and equals it exactly when no zid
\* was updated successfully by more than one row.
C21_DedupSetIsUpdatedZids ==
    [][ /\ processedDevices \subseteq processedDevices'
        /\ processedDevices' = UpdatedZids'
        /\ SummaryPrinted' =>
              /\ summary'[1].devices = Cardinality(processedDevices')
              /\ summary'[1].devices <= summary'[1].updated
              /\ (summary'[1].devices = summary'[1].updated)
                 <=> (\A i, j \in 1..Len(rows) :
                         ( /\ task'[i] = "Updated" /\ task'[j] = "Updated"
                           /\ rows[i].zid = rows[j].zid ) => i = j) ]_vars

\* A summary after one zid was updated by two rows and another update failed
C21_Witness ==
    /\ SummaryPrinted
    /\ summary[1].devices < summary[1].updated
    /\ \E i \in 1..Len(rows) :
          task[i] = "Failed" /\ rows[i].zid \notin processedDevices

(* C22 *)

\* The store calls of the sequential script issued and not yet answered
SeqOutstanding ==
    { k \in 1..Len(storeOps) :
        \/ storeOps[k].op = "get" /\ task[storeOps[k].row] = "Getting"
        \/ storeOps[k].op = "update" /\ task[storeOps[k].row] = "Updating" }

\* C22: the sequential script has at most one store call outstanding at any
\* time; the update of a row is issued only after the get of that row has
\* returned; a row is read only when the store calls of every earlier row
\* have settled; a store error on a row is caught and logged with the row's
\* suid and zid, the run goes on, and it ends only after every row was read,
\* with the summary and exit code 0.
C22_SequentialAndIsolated ==
    [][ /\ Cardinality(SeqOutstanding') <= 1
        /\ \A k \in 1..Len(storeOps') :
              storeOps'[k].op = "update"
              => /\ \E n \in 1..(k - 1) :
                       storeOps'[n] = [op |-> "get", row |-> storeOps'[k].row]
                 /\ task'[storeOps'[k].row] # "Getting"
        /\ \A i \in 1..Len(rows) :
              (processedCount' = i /\ processedCount = i - 1)
              => /\ SeqOutstanding = {}
                 /\ \A j \in 1..(i - 1) : task[j] \notin {"Unread", "Getting", "Updating"}
        /\ \A i \in 1..Len(rows) :
              (task'[i] = "Failed" /\ task[i] # "Failed")
              => /\ Len(errorLog') = Len(errorLog) + 1
                 /\ errorLog'[Len(errorLog')].suid = rows[i].suid
                 /\ errorLog'[Len(errorLog')].zid = rows[i].zid
                 /\ pc' # "exited"
                 /\ exitCode' = exitCode
        /\ (fileExists /\ pc' = "exited")
              => /\ processedCount' = Len(rows)
                 /\ summary' # << >>
                 /\ exitCode' = 0 ]_vars

\* A run that ended with its summary after the store call of one row failed
\* and a later row was updated
C22_Witness ==
    /\ pc = "exited"
    /\ summary # << >>
    /\ \E i, j \in 1..Len(rows) :
          i < j /\ task[i] = "Failed" /\ task[j] = "Updated"

====
